---- MODULE Spec2Model ----
\* Model of concurrent-event: Event<A, H> with a HashMap<HandlerId, H>
\* registry, add_handler, get_handler and emit, where emit fans out one
\* crossbeam scoped thread per handler and joins them all.
EXTENDS Integers, FiniteSets, Sequences, TLC

\* ---------------------------------------------------------------- bounds
\* Handler ids the random HandlerId::new can draw (collisions included).
MaxIds == 2
Ids == 1..MaxIds
\* Emit arguments.
Args == {2, 3}
\* Caps on the number of add_handler and emit calls.
MaxAdds == 2
MaxEmits == 2

\* Handler kinds taken from the repository's tests:
\*   "sum"   StatefulEventHandler::new(|arg, state| *state += arg, 0)
\*   "prod"  StatefulEventHandler::new(|arg, state| *state *= arg, 1)
\*   "panic" the PanicState handler of test `panicking`
\*   "hang"  a handler whose on_event never returns (e.g. `loop {}`)
Kinds == {"sum", "prod", "panic", "hang"}

NoKind == "none"
\* get_handler returned None (or was not called yet).
NoLookup == [found |-> FALSE, kind |-> "none",
             state |-> [n |-> 0, panicked |-> FALSE, calmed |-> FALSE]]

\* Handler-private state, one record shape for every kind.
InitState(k) ==
    CASE k = "sum"  -> [n |-> 0, panicked |-> FALSE, calmed |-> FALSE]
      [] k = "prod" -> [n |-> 1, panicked |-> FALSE, calmed |-> FALSE]
      [] OTHER      -> [n |-> 0, panicked |-> FALSE, calmed |-> FALSE]

\* Variant: a panicking call loses the state mutations it made.
OnEventRollback(k, s, a) ==
    CASE k = "sum"  -> [state |-> [s EXCEPT !.n = s.n + a], panics |-> FALSE]
      [] k = "prod" -> [state |-> [s EXCEPT !.n = s.n * a], panics |-> FALSE]
      [] k = "panic" ->
            IF s.panicked
            THEN [state |-> [s EXCEPT !.calmed = TRUE], panics |-> FALSE]
            ELSE [state |-> s, panics |-> TRUE]
      [] OTHER      -> [state |-> s, panics |-> FALSE]

\* StatefulEventHandler::on_event: (self.func)(arg, &mut self.state).
\* Returns the state after the closure ran (up to the panic, if any) and
\* whether the closure panicked.
OnEvent(k, s, a) ==
    CASE k = "sum"  -> [state |-> [s EXCEPT !.n = s.n + a], panics |-> FALSE]
      [] k = "prod" -> [state |-> [s EXCEPT !.n = s.n * a], panics |-> FALSE]
      [] k = "panic" ->
            IF s.panicked
            THEN [state |-> [s EXCEPT !.calmed = TRUE], panics |-> FALSE]
            ELSE [state |-> [s EXCEPT !.panicked = TRUE], panics |-> TRUE]
      [] OTHER      -> [state |-> s, panics |-> FALSE]

\* Whether on_event of a handler of kind k returns (normally or by panic).
Terminates(k) == k # "hang"

\* Variant: a panicked thread is never counted as joined.
JoinDoneStrict(st, S) == \A h \in S : st[h] = "done"

\* Variant: the scope returns without waiting for its threads.
JoinDoneNone(st, S) == TRUE

\* Variant: the join gives up at the first panicked thread.
JoinDoneAbort(st, S) ==
    \/ \A h \in S : st[h] \in {"done", "panicked"}
    \/ \E h \in S : st[h] = "panicked"

\* crossbeam::thread::scope joins every spawned thread before returning.
JoinDone(st, S) == \A h \in S : st[h] \in {"done", "panicked"}

\* Variant: success as soon as some thread completed normally.
ScopeResultAny(st, S) == \E h \in S : st[h] = "done"

\* Variant: an empty scope is reported as a failure.
ScopeResultNonEmpty(st, S) == S # {} /\ \A h \in S : st[h] # "panicked"

\* thread::scope(..).is_ok(): Ok iff no spawned thread panicked.
ScopeResult(st, S) == \A h \in S : st[h] # "panicked"

VARIABLES
    reg,          \* keys of self.handlers
    kind,         \* which handler is stored under each key
    hstate,       \* each handler's private state
    pc,           \* caller position: "idle", "spawning" (for loop), "joining"
    pending,      \* handlers the for loop over values_mut() has not spawned yet
    roundSet,     \* handlers of self.handlers when the current/last emit began
    status,       \* per handler thread: "none", "running", "done", "panicked"
    emitArg,      \* argument of the current/last emit
    recvArg,      \* argument moved into each handler's thread closure
    calls,        \* on_event invocations per handler in the current/last emit
    emitRet,      \* value returned by the last emit
    lastOp,       \* last call: "new", "add", "get", "emitting" (in flight), "emit"
    lookup,       \* value returned by the last get_handler (found = Some)
    emits,        \* number of emit calls so far
    adds,         \* number of add_handler calls so far
    log,          \* per handler: arguments of the emits it was registered for
    regBefore,    \* reg when the current/last emit began
    stateBefore,  \* hstate when the current/last emit began
    prevPanicked  \* ids whose thread panicked in the emit before the last
                  \* (and not overwritten by add_handler since)

vars == <<reg, kind, hstate, pc, pending, roundSet, status, emitArg, recvArg,
          calls, emitRet, lastOp, lookup, emits, adds, log, regBefore, stateBefore,
          prevPanicked>>

\* Event::new
Init ==
    /\ reg = {}
    /\ kind = [h \in Ids |-> NoKind]
    /\ hstate = [h \in Ids |-> InitState(NoKind)]
    /\ pc = "idle"
    /\ pending = {}
    /\ roundSet = {}
    /\ status = [h \in Ids |-> "none"]
    /\ emitArg = 0
    /\ recvArg = [h \in Ids |-> 0]
    /\ calls = [h \in Ids |-> 0]
    /\ emitRet = FALSE
    /\ lastOp = "new"
    /\ lookup = NoLookup
    /\ emits = 0
    /\ adds = 0
    /\ log = [h \in Ids |-> <<>>]
    /\ regBefore = {}
    /\ stateBefore = [h \in Ids |-> InitState(NoKind)]
    /\ prevPanicked = {}

\* Variant: registration is not excluded while an emit is in flight.
AddHandlerRacy(k, id) ==
    /\ adds < MaxAdds
    /\ adds' = adds + 1
    /\ reg' = reg \cup {id}
    /\ kind' = [kind EXCEPT ![id] = k]
    /\ hstate' = [hstate EXCEPT ![id] = InitState(k)]
    /\ status' = [status EXCEPT ![id] = "none"]
    /\ log' = [log EXCEPT ![id] = <<>>]
    /\ lastOp' = "add"
    /\ UNCHANGED <<pc, pending, roundSet, emitArg, recvArg, calls, emitRet, lookup,
                   emits, regBefore, stateBefore, prevPanicked>>

\* Variant: insertion keeps the handler already stored under the id.
AddHandlerKeep(k, id) ==
    /\ pc = "idle"
    /\ adds < MaxAdds
    /\ adds' = adds + 1
    /\ reg' = reg \cup {id}
    /\ kind' = IF id \in reg THEN kind ELSE [kind EXCEPT ![id] = k]
    /\ hstate' = IF id \in reg THEN hstate ELSE [hstate EXCEPT ![id] = InitState(k)]
    /\ status' = IF id \in reg THEN status ELSE [status EXCEPT ![id] = "none"]
    /\ log' = IF id \in reg THEN log ELSE [log EXCEPT ![id] = <<>>]
    /\ lastOp' = "add"
    /\ UNCHANGED <<pc, pending, roundSet, emitArg, recvArg, calls, emitRet, lookup,
                   emits, regBefore, stateBefore, prevPanicked>>

\* Event::add_handler: id = HandlerId::new(); self.handlers.insert(id, handler)
\* (insert overwrites the handler under an id that is drawn again).
AddHandler(k, id) ==
    /\ pc = "idle"
    /\ adds < MaxAdds
    /\ adds' = adds + 1
    /\ reg' = reg \cup {id}
    /\ kind' = [kind EXCEPT ![id] = k]
    /\ hstate' = [hstate EXCEPT ![id] = InitState(k)]
    /\ status' = [status EXCEPT ![id] = "none"]
    /\ log' = [log EXCEPT ![id] = <<>>]
    /\ lastOp' = "add"
    /\ UNCHANGED <<pc, pending, roundSet, emitArg, recvArg, calls, emitRet, lookup,
                   emits, regBefore, stateBefore, prevPanicked>>

\* Variant: the lookup answers with whichever handler is stored first.
GetHandlerAny(id) ==
    /\ pc = "idle"
    /\ lookup' = IF reg # {}
                 THEN LET g == CHOOSE x \in reg : TRUE
                      IN [found |-> TRUE, kind |-> kind[g], state |-> hstate[g]]
                 ELSE NoLookup
    /\ lastOp' = "get"
    /\ UNCHANGED <<emitRet, reg, kind, hstate, pc, pending, roundSet, status, emitArg,
                   recvArg, calls, emits, adds, log, regBefore, stateBefore,
                   prevPanicked>>

\* Event::get_handler: self.handlers.get(&id)
GetHandler(id) ==
    /\ pc = "idle"
    /\ lookup' = IF id \in reg
                 THEN [found |-> TRUE, kind |-> kind[id], state |-> hstate[id]]
                 ELSE NoLookup
    /\ lastOp' = "get"
    /\ UNCHANGED <<emitRet, reg, kind, hstate, pc, pending, roundSet, status, emitArg,
                   recvArg, calls, emits, adds, log, regBefore, stateBefore,
                   prevPanicked>>

\* Event::emit entry: thread::scope starts, the for loop over values_mut()
\* will visit every handler registered now.
EmitStart(a) ==
    /\ pc = "idle"
    /\ emits < MaxEmits
    /\ emits' = emits + 1
    /\ pc' = "spawning"
    /\ emitArg' = a
    /\ pending' = reg
    /\ roundSet' = reg
    /\ prevPanicked' = {h \in Ids : status[h] = "panicked"}
    /\ status' = [h \in Ids |-> "none"]
    /\ calls' = [h \in Ids |-> 0]
    /\ recvArg' = [h \in Ids |-> 0]
    /\ log' = [h \in Ids |-> IF h \in reg THEN Append(log[h], a) ELSE log[h]]
    /\ regBefore' = reg
    /\ stateBefore' = hstate
    /\ lastOp' = "emitting"
    /\ UNCHANGED <<reg, kind, hstate, emitRet, lookup, adds>>

\* Variant: the loop may visit an already finished handler again.
SpawnDup(h) ==
    /\ pc = "spawning"
    /\ \/ h \in pending
       \/ pending # {} /\ status[h] = "done"
    /\ pending' = pending \ {h}
    /\ status' = [status EXCEPT ![h] = "running"]
    /\ calls' = [calls EXCEPT ![h] = calls[h] + 1]
    /\ recvArg' = [recvArg EXCEPT ![h] = emitArg]
    /\ UNCHANGED <<reg, kind, hstate, pc, roundSet, emitArg, emitRet, lastOp, lookup,
                   emits, adds, log, regBefore, stateBefore, prevPanicked>>

\* Variant: each spawned thread is joined before the next one is spawned.
SpawnSerial(h) ==
    /\ pc = "spawning"
    /\ h \in pending
    /\ \A g \in Ids : status[g] # "running"
    /\ pending' = pending \ {h}
    /\ status' = [status EXCEPT ![h] = "running"]
    /\ calls' = [calls EXCEPT ![h] = calls[h] + 1]
    /\ recvArg' = [recvArg EXCEPT ![h] = emitArg]
    /\ UNCHANGED <<reg, kind, hstate, pc, roundSet, emitArg, emitRet, lastOp, lookup,
                   emits, adds, log, regBefore, stateBefore, prevPanicked>>

\* One iteration of the for loop: s.spawn(move |_| handler.on_event(arg)).
\* The HashMap iteration order is unspecified, so any pending handler.
Spawn(h) ==
    /\ pc = "spawning"
    /\ h \in pending
    /\ pending' = pending \ {h}
    /\ status' = [status EXCEPT ![h] = "running"]
    /\ calls' = [calls EXCEPT ![h] = calls[h] + 1]
    /\ recvArg' = [recvArg EXCEPT ![h] = emitArg]
    /\ UNCHANGED <<reg, kind, hstate, pc, roundSet, emitArg, emitRet, lastOp, lookup,
                   emits, adds, log, regBefore, stateBefore, prevPanicked>>

\* The scope closure returns after the loop; scope now joins the threads.
EndSpawnLoop ==
    /\ pc = "spawning"
    /\ pending = {}
    /\ pc' = "joining"
    /\ UNCHANGED <<reg, kind, hstate, pending, roundSet, status, emitArg,
                   recvArg, calls, emitRet, lastOp, lookup, emits, adds, log,
                   regBefore, stateBefore, prevPanicked>>

\* Variant: the closure works on the state of another handler of the round.
RunHandlerShared(h) ==
    /\ status[h] = "running"
    /\ Terminates(kind[h])
    /\ \E g \in roundSet :
        LET r == OnEvent(kind[h], hstate[g], recvArg[h])
        IN /\ hstate' = [hstate EXCEPT ![h] = r.state]
           /\ status' = [status EXCEPT ![h] = IF r.panics THEN "panicked"
                                                         ELSE "done"]
    /\ UNCHANGED <<reg, kind, pc, pending, roundSet, emitArg, recvArg, calls,
                   emitRet, lastOp, lookup, emits, adds, log, regBefore, stateBefore,
                   prevPanicked>>

\* A spawned thread runs handler.on_event(arg) to completion or panic; the
\* panic is caught by the thread boundary.
RunHandler(h) ==
    /\ status[h] = "running"
    /\ Terminates(kind[h])
    /\ LET r == OnEvent(kind[h], hstate[h], recvArg[h])
       IN /\ hstate' = [hstate EXCEPT ![h] = r.state]
          /\ status' = [status EXCEPT ![h] = IF r.panics THEN "panicked"
                                                        ELSE "done"]
    /\ UNCHANGED <<reg, kind, pc, pending, roundSet, emitArg, recvArg, calls,
                   emitRet, lastOp, lookup, emits, adds, log, regBefore, stateBefore,
                   prevPanicked>>

\* Variant: a handler panic is resumed in the caller instead of being
\* turned into the return value.
EmitReturnUnwind ==
    /\ pc = "joining"
    /\ JoinDone(status, roundSet)
    /\ pc' = "idle"
    /\ emitRet' = ScopeResult(status, roundSet)
    /\ lastOp' = IF ScopeResult(status, roundSet) THEN "emit" ELSE "unwound"
    /\ UNCHANGED <<reg, kind, hstate, pending, roundSet, status, emitArg,
                   recvArg, calls, lookup, emits, adds, log, regBefore,
                   stateBefore, prevPanicked>>

\* Variant: handlers whose thread panicked are dropped from the registry.
EmitReturnPrune ==
    /\ pc = "joining"
    /\ JoinDone(status, roundSet)
    /\ pc' = "idle"
    /\ emitRet' = ScopeResult(status, roundSet)
    /\ lastOp' = "emit"
    /\ reg' = {h \in reg : status[h] # "panicked"}
    /\ UNCHANGED <<kind, hstate, pending, roundSet, status, emitArg,
                   recvArg, calls, lookup, emits, adds, log, regBefore,
                   stateBefore, prevPanicked>>

\* thread::scope returns after joining every thread; emit returns is_ok().
EmitReturn ==
    /\ pc = "joining"
    /\ JoinDone(status, roundSet)
    /\ pc' = "idle"
    /\ emitRet' = ScopeResult(status, roundSet)
    /\ lastOp' = "emit"
    /\ UNCHANGED <<reg, kind, hstate, pending, roundSet, status, emitArg,
                   recvArg, calls, lookup, emits, adds, log, regBefore,
                   stateBefore, prevPanicked>>

Next ==
    \/ \E k \in Kinds, id \in Ids : AddHandler(k, id)
    \/ \E id \in Ids : GetHandler(id)
    \/ \E a \in Args : EmitStart(a)
    \/ \E h \in Ids : Spawn(h)
    \/ EndSpawnLoop
    \/ \E h \in Ids : RunHandler(h)
    \/ EmitReturn

Spec == Init /\ [][Next]_vars

\* The OS scheduler keeps running every live thread: the caller thread in
\* emit and each spawned handler thread.
LiveSpec ==
    /\ Spec
    /\ WF_vars(\E h \in Ids : Spawn(h))
    /\ WF_vars(EndSpawnLoop)
    /\ \A h \in Ids : WF_vars(RunHandler(h))
    /\ WF_vars(EmitReturn)

\* ---------------------------------------------------------------- helpers
\* The handler's state after on_event ran on each argument of seq in order.
RECURSIVE FoldOnEvent(_, _, _)
FoldOnEvent(k, s, seq) ==
    IF seq = <<>> THEN s
    ELSE FoldOnEvent(k, OnEvent(k, s, Head(seq)).state, Tail(seq))

\* What on_event does to handler h with the state it had when emit began.
RoundOutcome(h) == OnEvent(kind[h], stateBefore[h], emitArg)

\* ---------------------------------------------------------------- claims
\* C1: emit returns true iff every handler dispatched in the round completed
\* on_event without panicking, and false if one or more panicked.
C1_EmitResultIffNoPanic ==
    lastOp = "emit" =>
        (emitRet = TRUE <=> \A h \in roundSet : status[h] = "done")

C1_Witness ==
    /\ lastOp = "emit"
    /\ emitRet = FALSE
    /\ \E h \in roundSet : status[h] = "done"

\* C2: once emit has returned, no on_event call of that round is still
\* running and every non-panicking handler's mutation of the round is visible
\* to get_handler.
C2_EmitJoinsAll ==
    lastOp = "emit" =>
        /\ \A h \in Ids : status[h] # "running"
        /\ \A h \in roundSet :
              status[h] = "done" => hstate[h] = RoundOutcome(h).state

C2_Witness ==
    /\ lastOp = "emit"
    /\ emitRet = TRUE
    /\ Cardinality(roundSet) = 2
    /\ \A h \in roundSet : hstate[h] # stateBefore[h]

\* C3: a panic in one handler does not keep any other handler of the round
\* from running on_event to completion; their mutations are observable after
\* emit returns.
C3_FailureIsolation ==
    (lastOp = "emit" /\ \E g \in roundSet : status[g] = "panicked") =>
        \A h \in roundSet :
            \/ RoundOutcome(h).panics
            \/ status[h] = "done" /\ hstate[h] = RoundOutcome(h).state

C3_Witness ==
    /\ lastOp = "emit"
    /\ emitRet = FALSE
    /\ \E h, g \in roundSet :
          /\ status[h] = "panicked"
          /\ status[g] = "done"
          /\ hstate[g] # stateBefore[g]

\* C4: a handler that panicked in round N stays registered and runs again in
\* round N+1; the PanicState handler of the tests then completes, emit
\* returns true when no other handler panicked, and its state shows both
\* rounds (panicked and calmed).
C4_PanickedHandlerRerun ==
    lastOp = "emit" =>
        \A h \in prevPanicked :
            /\ h \in reg
            /\ calls[h] = 1
            /\ status[h] \in {"done", "panicked"}
            /\ (kind[h] = "panic" /\ \A g \in roundSet \ {h} : status[g] = "done")
                 => /\ emitRet = TRUE
                    /\ hstate[h].panicked
                    /\ hstate[h].calmed

C4_Witness ==
    /\ lastOp = "emit"
    /\ emitRet = TRUE
    /\ \E h \in prevPanicked : kind[h] = "panic"

\* C5: with no registered handler, emit returns true and changes neither the
\* registry nor any observable state.
C5_EmptyEmit ==
    (lastOp = "emit" /\ regBefore = {}) =>
        /\ emitRet = TRUE
        /\ reg = regBefore
        /\ hstate = stateBefore
        /\ \A h \in Ids : calls[h] = 0

C5_Witness ==
    /\ lastOp = "emit"
    /\ emitRet = TRUE
    /\ regBefore = {}
    /\ emits = 1

\* C6: when no registered handler panics in the round (any number N >= 0 of
\* them), emit returns true.
C6_NoPanicTrue ==
    (lastOp = "emit" /\ \A h \in roundSet : ~RoundOutcome(h).panics) =>
        emitRet = TRUE

C6_Witness ==
    /\ lastOp = "emit"
    /\ emitRet = TRUE
    /\ Cardinality(roundSet) = 2
    /\ \A h \in roundSet : kind[h] # "panic"

\* C7: successive emits are sequential and cumulative: between calls, each
\* handler's state is its step function applied to the arguments of the
\* emits since its registration, in order, from its initial state.
C7_Cumulative ==
    pc = "idle" =>
        \A h \in reg : hstate[h] = FoldOnEvent(kind[h], InitState(kind[h]), log[h])

C7_Witness ==
    /\ pc = "idle"
    /\ \E h \in reg : kind[h] = "sum" /\ Len(log[h]) = 2 /\ log[h][1] # log[h][2]

\* C8: in every state, under any interleaving of the handler threads, each
\* handler's state is its own step function applied to the arguments it has
\* been dispatched and has finished (sum 0 and product 1 after 3 then 5 give
\* 8 and 15).
C8_StateIsolation ==
    \A h \in reg :
        hstate[h] =
            FoldOnEvent(kind[h], InitState(kind[h]),
                        IF pc # "idle" /\ h \in roundSet
                           /\ status[h] \in {"none", "running"}
                        THEN SubSeq(log[h], 1, Len(log[h]) - 1)
                        ELSE log[h])

C8_Witness ==
    /\ pc = "idle"
    /\ \E h, g \in reg :
          /\ kind[h] = "sum" /\ kind[g] = "prod"
          /\ Len(log[h]) = 2 /\ Len(log[g]) = 2
          /\ log[h][1] # log[h][2]

\* C9: each emit(arg) invokes on_event exactly once per handler registered
\* when it started, and each invocation receives arg unchanged.
C9_OncePerHandler ==
    lastOp = "emit" =>
        \A h \in Ids :
            /\ calls[h] = (IF h \in regBefore THEN 1 ELSE 0)
            /\ h \in regBefore => recvArg[h] = emitArg

C9_Witness ==
    /\ lastOp = "emit"
    /\ Cardinality(regBefore) = 2
    /\ emitArg = 3

\* C10: dispatch is concurrent: spawning the next handler never waits for
\* the handlers already running, so all of a round's handlers can run at once.
C10_ConcurrentDispatch ==
    (pc = "spawning" /\ pending # {}) => ENABLED (\E h \in Ids : Spawn(h))

C10_Witness ==
    /\ pc # "idle"
    /\ Cardinality(roundSet) = 2
    /\ \A h \in roundSet : status[h] = "running"

\* C11 (as stated): add_handler always grows the registry by exactly one
\* entry, and get_handler with the returned id gives the new handler.
C11_Original ==
    [][\A k \in Kinds, id \in Ids :
         AddHandler(k, id) =>
            /\ Cardinality(reg') = Cardinality(reg) + 1
            /\ kind'[id] = k /\ hstate'[id] = InitState(k)]_vars

\* C11 (amended): add_handler always succeeds and get_handler with the
\* returned id gives the new handler; the registry grows by exactly one entry
\* unless HandlerId::new drew an id already registered, in which case its
\* size is unchanged.
C11_AddHandler ==
    [][\A k \in Kinds, id \in Ids :
         AddHandler(k, id) =>
            /\ id \in reg'
            /\ kind'[id] = k /\ hstate'[id] = InitState(k)
            /\ Cardinality(reg') =
                  Cardinality(reg) + (IF id \in reg THEN 0 ELSE 1)]_vars

C11_Witness ==
    /\ lastOp = "add"
    /\ Cardinality(reg) = 2

\* C13: get_handler(id) returns None for an id never registered and the
\* registered handler otherwise, and changes neither the registry nor any
\* handler's state.
C13_GetHandler ==
    [][\A id \in Ids :
         GetHandler(id) =>
            /\ lookup'.found = (id \in reg)
            /\ id \in reg => lookup'.kind = kind[id] /\ lookup'.state = hstate[id]
            /\ UNCHANGED <<reg, kind, hstate>>]_vars

C13_Witness ==
    /\ lastOp = "get"
    /\ ~lookup.found
    /\ reg # {}

\* C14: if every handler of the round terminates (normally or by panic) the
\* emit call eventually returns; if one handler never returns, the emit never
\* returns.
C14_EmitTermination ==
    /\ (pc # "idle" /\ \A h \in roundSet : Terminates(kind[h])) ~> (pc = "idle")
    /\ [][(pc # "idle" /\ \E h \in roundSet : ~Terminates(kind[h]))
           => pc' # "idle"]_vars

C14_Witness ==
    /\ lastOp = "emit"
    /\ \E h \in roundSet : status[h] = "panicked"
    /\ \E h \in roundSet : status[h] = "done"

\* C15: the registry is append-only: the set of registered ids never shrinks,
\* and every step other than add_handler (emit's steps, get_handler) leaves
\* the ids and the handler each maps to unchanged, also when handlers panic.
C15_AppendOnly ==
    [][/\ reg \subseteq reg'
       /\ (~\E k \in Kinds, id \in Ids : AddHandler(k, id))
            => (reg' = reg /\ kind' = kind)]_vars

C15_Witness ==
    /\ lastOp = "emit"
    /\ emitRet = FALSE
    /\ Cardinality(reg) = 2

\* C16: while an emit is in flight (emit holds &mut self) no add_handler or
\* get_handler step happens and the map is not changed, and the handlers
\* dispatched by the round are exactly those registered when emit began.
C16_EmitExclusive ==
    [][/\ pc # "idle" =>
            /\ ~\E k \in Kinds, id \in Ids : AddHandler(k, id)
            /\ ~\E id \in Ids : GetHandler(id)
            /\ reg' = reg /\ kind' = kind
       /\ (pc = "joining" /\ pc' = "idle") =>
            {h \in Ids : calls[h] > 0} = regBefore]_vars

C16_Witness ==
    /\ pc = "joining"
    /\ Cardinality(regBefore) = 2
    /\ \E h \in regBefore : status[h] = "running"

\* C17: a handler that panics part-way keeps the mutations made before the
\* panic: after emit returns false its state is the partially updated one
\* (PanicState: panicked = true), and the next round starts from it.
C17_PanicKeepsPartialState ==
    /\ lastOp = "emit" =>
          \A h \in roundSet :
              status[h] = "panicked" =>
                  /\ hstate[h] = RoundOutcome(h).state
                  /\ hstate[h].panicked
    /\ \A h \in prevPanicked : stateBefore[h].panicked

C17_Witness ==
    /\ lastOp = "emit"
    /\ emitRet = FALSE
    /\ \E h \in roundSet : status[h] = "panicked" /\ hstate[h].panicked

\* C18: a handler panic never reaches emit's caller: once all threads are
\* joined emit returns a boolean (false), also when several handlers panic.
C18_PanicContained ==
    (/\ pc # "idle"
     /\ \E h \in roundSet : RoundOutcome(h).panics
     /\ \A h \in roundSet : Terminates(kind[h]))
        ~> (lastOp = "emit" /\ emitRet = FALSE)

C18_Witness ==
    /\ lastOp = "emit"
    /\ emitRet = FALSE
    /\ Cardinality({h \in roundSet : status[h] = "panicked"}) = 2

====
